---- MODULE Spec2Model ----
(***************************************************************************)
(* demultiplex.py: the demultiplexing loop over four FASTQ streams, the    *)
(* index matcher, the quality check, the bit flag of failure reasons, the  *)
(* routing of the two reads to the barcode files or to the reject files,   *)
(* and the running counters.                                               *)
(*                                                                         *)
(* A Python string is modelled as a sequence of one-character strings, a   *)
(* file as the sequence of its lines (without the line terminator) and the *)
(* file system as a function from file name to the lines of the file.      *)
(*                                                                         *)
(* The input lines are taken as text (str), the reading under which the    *)
(* comparisons with "" and the concatenations of the loop are defined.     *)
(* gzip.open(path, "r") of Python 3 yields bytes instead: there line 261   *)
(* never sees "" and line 269 raises TypeError on the first group.         *)
(***************************************************************************)
EXTENDS Integers, Sequences, FiniteSets, TLC

\* Bounds of the model.
MaxRecords == 2
MaxLen == 3

\* Program constants.
fastqLines == 4
cutoffQS == 32

\* [None] * 4: the value of an array slot that was never assigned.
None == <<"None">>

VARIABLES
    R1, R2, I1, I2,              \* the lines of the four input files
    posR1, posR2, posI1, posI2,  \* number of lines consumed of each file
    read1, read2,                \* the two read records (arrays of 4 lines)
    indexR1, indexR2,            \* the two index records (arrays of 4 lines)
    index1, index2,              \* the index sequences of the current group
    flag,                        \* bit flag of the current group
    reads, N, IH, QS,            \* counters
    indices,                     \* barcode -> count, plus the "SNP" entry
    files,                       \* output files: name -> lines
    out,                         \* the summary file
    matched,                     \* result of the last call of matching
    pc                           \* "loop", "done", "crashed", "closed"

vars == <<R1, R2, I1, I2, posR1, posR2, posI1, posI2, read1, read2,
          indexR1, indexR2, index1, index2, flag, reads, N, IH, QS,
          indices, files, out, matched, pc>>

----------------------------------------------------------------------------
\* Characters and strings

\* ord() of the characters that occur in the model.
ord(c) ==
    CASE c = " " -> 32 [] c = "!" -> 33 [] c = "#" -> 35 [] c = "(" -> 40
      [] c = ")" -> 41 [] c = "+" -> 43 [] c = "1" -> 49 [] c = "2" -> 50
      [] c = "@" -> 64 [] c = "A" -> 65 [] c = "C" -> 67 [] c = "E" -> 69
      [] c = "G" -> 71 [] c = "H" -> 72 [] c = "I" -> 73 [] c = "N" -> 78
      [] c = "P" -> 80 [] c = "Q" -> 81 [] c = "S" -> 83 [] c = "T" -> 84

isspace(c) == c = " "

RECURSIVE lstrip(_)
lstrip(s) == IF s # <<>> /\ isspace(Head(s)) THEN lstrip(Tail(s)) ELSE s

RECURSIVE rstrip(_)
rstrip(s) ==
    IF s # <<>> /\ isspace(s[Len(s)]) THEN rstrip(SubSeq(s, 1, Len(s) - 1))
    ELSE s

\* str.strip(): leading and trailing white space removed.
strip(s) == rstrip(lstrip(s))

\* file.readline(): the next line, or the empty string at end of file.
readline(file, pos) == IF pos <= Len(file) THEN file[pos] ELSE <<>>

\* The position of the file after one readline().
advance(file, pos) == IF pos <= Len(file) THEN pos + 1 ELSE pos

readInLine(file, pos) == strip(readline(file, pos))

----------------------------------------------------------------------------
\* containsN, matching

containsN(index) == \E i \in 1..Len(index) : index[i] = "N"

complement(x) ==
    CASE x = "A" -> "T" [] x = "T" -> "A" [] x = "G" -> "C" [] x = "C" -> "G"
      [] OTHER -> "N"

\* for x in index2: inverse = complement(x) + inverse
RECURSIVE inverseLoop(_, _)
inverseLoop(rest, inverse) ==
    IF rest = <<>> THEN inverse
    ELSE inverseLoop(Tail(rest), <<complement(Head(rest))>> \o inverse)

\* s[1:], s[:-1], s[1:-1]
dropFirst(s) == SubSeq(s, 2, Len(s))
dropLast(s) == SubSeq(s, 1, Len(s) - 1)
dropBoth(s) == SubSeq(s, 2, Len(s) - 1)

\* matching with the branch for an N in both indexes tested first.
matchingTrimBoth(i1, i2) ==
    LET inverse == inverseLoop(i2, <<>>)
    IN  IF containsN(i1) /\ containsN(i2)
        THEN dropBoth(inverse) = dropBoth(i1)
        ELSE IF containsN(i1) THEN dropFirst(inverse) = dropFirst(i1)
        ELSE IF containsN(i2) THEN dropLast(inverse) = dropLast(i1)
        ELSE inverse = i1

matching(i1, i2) ==
    LET inverse == inverseLoop(i2, <<>>)
    IN  IF containsN(i1) THEN dropFirst(inverse) = dropFirst(i1)
        ELSE IF containsN(i2) THEN dropLast(inverse) = dropLast(i1)
        ELSE IF containsN(i1) /\ containsN(i2)
             THEN dropBoth(inverse) = dropBoth(i1)
        ELSE inverse = i1

----------------------------------------------------------------------------
\* convertPhred, meanQS, compareMeans

convertPhred(letter) == ord(letter) - 33

\* for base in q: total = total + convertPhred(base); bp = bp + 1
RECURSIVE meanLoop(_, _, _)
meanLoop(q, total, bp) ==
    IF q = <<>> THEN [total |-> total, bp |-> bp]
    ELSE meanLoop(Tail(q), total + convertPhred(Head(q)), bp + 1)

\* read[3] raises IndexError when read has fewer than four items.
raisesIndexError(read) == Len(read) < 4

\* meanQS is called with the index sequence (a string): read[3] is then
\* the string of its fourth character, and the loop runs over that string.
meanQS(read) ==
    LET r == meanLoop(<<read[4]>>, 0, 0)
    IN  r.total \div r.bp

compareMeans(read) == meanQS(read) >= cutoffQS

----------------------------------------------------------------------------
\* writeToBadFile, writeToGoodFile

\* reason & bit
bitSet(reason, bit) == (reason \div bit) % 2 = 1

\* with open(outputFile, "a") as out: the four lines are appended, and the
\* file is created when it does not exist.
append(fs, outputFile, read) ==
    LET lines == <<read[1], read[2], read[3], read[4]>>
    IN  IF outputFile \in DOMAIN fs
        THEN [fs EXCEPT ![outputFile] = @ \o lines]
        ELSE fs @@ (outputFile :> lines)

\* The read as writeToBadFile leaves it: read[2] is changed in place.
tagRead(read, reason) ==
    LET t1 == IF bitSet(reason, 1)
              THEN [read EXCEPT ![3] = @ \o <<" ">> \o <<"(", "N", ")">>]
              ELSE read
        t2 == IF bitSet(reason, 2)
              THEN [t1 EXCEPT ![3] = @ \o <<" ">> \o <<"(", "I", "H", ")">>]
              ELSE t1
        t4 == IF bitSet(reason, 4)
              THEN [t2 EXCEPT ![3] = @ \o <<" ">> \o <<"(", "Q", "S", ")">>]
              ELSE t2
        t8 == IF bitSet(reason, 8)
              THEN [t4 EXCEPT ![3] = @ \o <<" ">> \o <<"(", "E", ")">>]
              ELSE t4
    IN  t8

\* writeToBadFile with the file opened in mode "w".
writeToBadFileTruncating(fs, outputFile, read, reason) ==
    LET tagged == tagRead(read, reason)
        lines == <<tagged[1], tagged[2], tagged[3], tagged[4]>>
    IN  IF outputFile \in DOMAIN fs
        THEN [fs EXCEPT ![outputFile] = lines]
        ELSE fs @@ (outputFile :> lines)

writeToBadFile(fs, outputFile, read, reason) ==
    append(fs, outputFile, tagRead(read, reason))

\* writeToGoodFile that writes the sequence line in place of the separator.
writeToGoodFileWrongLine(fs, outputFile, read) ==
    append(fs, outputFile, [read EXCEPT ![3] = read[2]])

writeToGoodFile(fs, outputFile, read) == append(fs, outputFile, read)

\* '.../outputFiles/%s_R1.fastq' % index1 and the two reject files; the
\* directory is the same for all files and is left out of the name.
goodR1(index) == index \o <<"_R1.fastq">>
goodR2(index) == index \o <<"_R2.fastq">>
rejectsR1 == <<"rejects_R1.fastq">>
rejectsR2 == <<"rejects_R2.fastq">>

----------------------------------------------------------------------------
\* The for loop that reads one record of each of the four files

RECURSIVE forLoop(_, _)
forLoop(st, x) ==
    IF x = fastqLines THEN st
    ELSE
      LET line1 == readInLine(st.R1, st.posR1)
          s1 == [st EXCEPT !.read1[x + 1] = line1,
                           !.posR1 = advance(st.R1, st.posR1)]
      IN  IF line1 = <<>> THEN [s1 EXCEPT !.end = TRUE]
          ELSE
            LET s2 == [s1 EXCEPT
                         !.indexR1[x + 1] = readInLine(st.I1, st.posI1),
                         !.posI1 = advance(st.I1, st.posI1),
                         !.indexR2[x + 1] = readInLine(st.I2, st.posI2),
                         !.posI2 = advance(st.I2, st.posI2),
                         !.read2[x + 1] = readInLine(st.R2, st.posR2),
                         !.posR2 = advance(st.R2, st.posR2)]
                s3 == IF x = 2
                      THEN [s2 EXCEPT
                              !.read1[3] = @ \o <<" ">> \o s2.indexR1[2],
                              !.index1 = s2.indexR1[2],
                              !.read2[3] = @ \o <<" ">> \o s2.indexR2[2],
                              !.index2 = s2.indexR2[2]]
                      ELSE s2
            IN  forLoop(s3, x + 1)

\* The state after the for loop of the iteration that starts now.
fetched ==
    forLoop([R1 |-> R1, R2 |-> R2, I1 |-> I1, I2 |-> I2,
             read1 |-> read1, read2 |-> read2,
             indexR1 |-> indexR1, indexR2 |-> indexR2,
             index1 |-> index1, index2 |-> index2,
             posR1 |-> posR1, posR2 |-> posR2,
             posI1 |-> posI1, posI2 |-> posI2, end |-> FALSE], 0)

\* The assignments of the for loop.
Fetch(st) ==
    /\ read1' = st.read1
    /\ read2' = st.read2
    /\ indexR1' = st.indexR1
    /\ indexR2' = st.indexR2
    /\ index1' = st.index1
    /\ index2' = st.index2
    /\ posR1' = st.posR1
    /\ posR2' = st.posR2
    /\ posI1' = st.posI1
    /\ posI2' = st.posI2

----------------------------------------------------------------------------
\* The bit flag of a group

errN(i1, i2) == containsN(i1) \/ containsN(i2)
errIH(i1, i2) == ~ matching(i1, i2)

\* not(compareMeans(index1)) or not(compareMeans(index2)): the second call
\* is made only when the first one returns True.
raisesQS(i1, i2) ==
    IF raisesIndexError(i1) THEN TRUE
    ELSE IF compareMeans(i1) THEN raisesIndexError(i2)
    ELSE FALSE
errQS(i1, i2) == IF compareMeans(i1) THEN ~ compareMeans(i2) ELSE TRUE

\* The flag after the three checks.
flagOf(i1, i2) ==
    (IF errN(i1, i2) THEN 1 ELSE 0) + (IF errIH(i1, i2) THEN 2 ELSE 0)
      + (IF errQS(i1, i2) THEN 4 ELSE 0)

----------------------------------------------------------------------------
\* The barcode table

SNP == <<"S", "N", "P">>

Barcodes ==
    {
      <<"G", "T", "A", "G", "C", "G", "T", "A">>, <<"C", "G", "A", "T", "C", "G", "A", "T">>,
      <<"G", "A", "T", "C", "A", "A", "G", "G">>, <<"A", "A", "C", "A", "G", "C", "G", "A">>,
      <<"T", "A", "G", "C", "C", "A", "T", "G">>, <<"C", "G", "G", "T", "A", "A", "T", "C">>,
      <<"C", "T", "C", "T", "G", "G", "A", "T">>, <<"T", "A", "C", "C", "G", "G", "A", "T">>,
      <<"C", "T", "A", "G", "C", "T", "C", "A">>, <<"C", "A", "C", "T", "T", "C", "A", "C">>,
      <<"G", "C", "T", "A", "C", "T", "C", "T">>, <<"A", "C", "G", "A", "T", "C", "A", "G">>,
      <<"T", "A", "T", "G", "G", "C", "A", "C">>, <<"T", "G", "T", "T", "C", "C", "G", "T">>,
      <<"G", "T", "C", "C", "T", "A", "A", "G">>, <<"T", "C", "G", "A", "C", "A", "A", "G">>,
      <<"T", "C", "T", "T", "C", "G", "A", "C">>, <<"A", "T", "C", "A", "T", "G", "C", "G">>,
      <<"A", "T", "C", "G", "T", "G", "G", "T">>, <<"T", "C", "G", "A", "G", "A", "G", "T">>,
      <<"T", "C", "G", "G", "A", "T", "T", "C">>, <<"G", "A", "T", "C", "T", "T", "G", "C">>,
      <<"A", "G", "A", "G", "T", "C", "C", "A">>, <<"A", "G", "G", "A", "T", "A", "G", "C">>
    }

\* indices = { 'GTAGCGTA': 0, ..., 'SNP': 0 }
indicesInit == [b \in Barcodes \cup {SNP} |-> 0]

----------------------------------------------------------------------------
\* The input files of the model

\* Records of the file of read 1: a record, and one with a blank sequence line.
R1Records ==
    { <<<<"@", "1">>, <<"A", "C">>, <<"+">>, <<"I", "I">>>>,
      <<<<"@", "1">>, <<" ">>, <<"+">>, <<"I", "I">>>> }

\* Records of the file of read 2 (the header ends with a blank).
R2Records ==
    { <<<<"@", "2", " ">>, <<"G", "T">>, <<"+">>, <<"H", "H">>>> }

\* Records of the file of index 1: a known barcode, the barcode with an N as
\* first base and a low quality line, an unknown barcode.
I1Records ==
    { <<<<"@", "1">>, <<"G", "T", "A", "G", "C", "G", "T", "A">>, <<"+">>, <<"I", "I", "I", "I", "I", "I", "I", "I">>>>,
      <<<<"@", "1">>, <<"N", "T", "A", "G", "C", "G", "T", "A">>, <<"+">>, <<"!", "!", "!", "!", "!", "!", "!", "!">>>>,
      <<<<"@", "1">>, <<"A", "A", "A", "A", "A", "A", "A", "A">>, <<"+">>, <<"I", "I", "I", "I", "I", "I", "I", "I">>>> }

\* Records of the file of index 2: the reverse complement of the known
\* barcode, the reverse complement of the unknown barcode, and a sequence
\* whose fourth character is not a base.
I2Records ==
    { <<<<"@", "2">>, <<"T", "A", "C", "G", "C", "T", "A", "C">>, <<"+">>, <<"I", "I", "I", "I", "I", "I", "I", "I">>>>,
      <<<<"@", "2">>, <<"T", "T", "T", "T", "T", "T", "T", "T">>, <<"+">>, <<"I", "I", "I", "I", "I", "I", "I", "I">>>>,
      <<<<"@", "2">>, <<"T", "A", "C", "#", "C", "T", "A", "C">>, <<"+">>, <<"I", "I", "I", "I", "I", "I", "I", "I">>>> }

RECURSIVE flatten(_)
flatten(recs) == IF recs = <<>> THEN <<>> ELSE Head(recs) \o flatten(Tail(recs))

\* The files of at most MaxRecords records taken from a set of records.
FilesOf(records) ==
    { flatten(recs) : recs \in UNION { [1..n -> records] : n \in 0..MaxRecords } }

----------------------------------------------------------------------------
\* The program

Init ==
    /\ R1 \in FilesOf(R1Records)
    /\ R2 \in FilesOf(R2Records)
    /\ I1 \in FilesOf(I1Records)
    /\ I2 \in FilesOf(I2Records)
    /\ posR1 = 1 /\ posR2 = 1 /\ posI1 = 1 /\ posI2 = 1
    /\ read1 = <<None, None, None, None>>
    /\ read2 = <<None, None, None, None>>
    /\ indexR1 = <<None, None, None, None>>
    /\ indexR2 = <<None, None, None, None>>
    /\ index1 = None /\ index2 = None
    /\ flag = 0
    /\ reads = 0 /\ N = 0 /\ IH = 0 /\ QS = 0
    /\ indices = indicesInit
    /\ files = <<>>
    /\ out = None
    /\ matched = FALSE
    /\ pc = "loop"

\* EndOfInput with the read counter incremented before the end flag is tested.
EndOfInputCounted ==
    /\ pc = "loop"
    /\ fetched.end
    /\ Fetch(fetched)
    /\ flag' = 0
    /\ reads' = reads + 1
    /\ pc' = "done"
    /\ UNCHANGED <<R1, R2, I1, I2, N, IH, QS, indices, files, out, matched>>

\* A line of read 1 is empty: end = True, and the loop is left.
EndOfInput ==
    /\ pc = "loop"
    /\ fetched.end
    /\ Fetch(fetched)
    /\ flag' = 0
    /\ pc' = "done"
    /\ UNCHANGED <<R1, R2, I1, I2, reads, N, IH, QS, indices, files, out,
                   matched>>

\* The quality check raises IndexError: the program ends with a traceback,
\* after the counters of the checks before it were incremented.
Crash ==
    LET st == fetched IN
    /\ pc = "loop"
    /\ ~ st.end
    /\ raisesQS(st.index1, st.index2)
    /\ Fetch(st)
    /\ reads' = reads + 1
    /\ matched' = matching(st.index1, st.index2)
    /\ N' = IF errN(st.index1, st.index2) THEN N + 1 ELSE N
    /\ IH' = IF ~ matched' THEN IH + 1 ELSE IH
    /\ flag' = (IF errN(st.index1, st.index2) THEN 1 ELSE 0)
                 + (IF ~ matched' THEN 2 ELSE 0)
    /\ pc' = "crashed"
    /\ UNCHANGED <<R1, R2, I1, I2, QS, indices, files, out>>

\* Count with the IH counter incremented for the reason N.
CountWrongCounter(st, f) ==
    /\ reads' = reads + 1
    /\ matched' = matching(st.index1, st.index2)
    /\ N' = IF bitSet(f, 1) THEN N + 1 ELSE N
    /\ IH' = IF bitSet(f, 1) THEN IH + 1 ELSE IH
    /\ QS' = IF bitSet(f, 4) THEN QS + 1 ELSE QS

\* The counters of one group whose flag after the three checks is f.
Count(st, f) ==
    /\ reads' = reads + 1
    /\ matched' = matching(st.index1, st.index2)
    /\ N' = IF bitSet(f, 1) THEN N + 1 ELSE N
    /\ IH' = IF bitSet(f, 2) THEN IH + 1 ELSE IH
    /\ QS' = IF bitSet(f, 4) THEN QS + 1 ELSE QS

\* Accept without the increment of the count of the barcode.
AcceptUncounted ==
    LET st == fetched
        f == flagOf(st.index1, st.index2) IN
    /\ pc = "loop"
    /\ ~ st.end
    /\ ~ raisesQS(st.index1, st.index2)
    /\ f = 0
    /\ st.index1 \in DOMAIN indices
    /\ Fetch(st)
    /\ Count(st, f)
    /\ flag' = f
    /\ files' = writeToGoodFile(
                    writeToGoodFile(files, goodR1(st.index1), st.read1),
                    goodR2(st.index1), st.read2)
    /\ UNCHANGED <<R1, R2, I1, I2, indices, out, pc>>

\* flag == 0 and index1 in indices: the two reads go to the barcode's files.
Accept ==
    LET st == fetched
        f == flagOf(st.index1, st.index2) IN
    /\ pc = "loop"
    /\ ~ st.end
    /\ ~ raisesQS(st.index1, st.index2)
    /\ f = 0
    /\ st.index1 \in DOMAIN indices
    /\ Fetch(st)
    /\ Count(st, f)
    /\ flag' = f
    /\ indices' = [indices EXCEPT ![st.index1] = @ + 1]
    /\ files' = writeToGoodFile(
                    writeToGoodFile(files, goodR1(st.index1), st.read1),
                    goodR2(st.index1), st.read2)
    /\ UNCHANGED <<R1, R2, I1, I2, out, pc>>

\* flag == 0 and index1 not in indices: flag 8, the "SNP" entry is counted,
\* and read1 is passed to both calls of writeToBadFile.
RejectUnknown ==
    LET st == fetched
        f == flagOf(st.index1, st.index2)
        once == tagRead(st.read1, f + 8)
        twice == tagRead(once, f + 8) IN
    /\ pc = "loop"
    /\ ~ st.end
    /\ ~ raisesQS(st.index1, st.index2)
    /\ f = 0
    /\ st.index1 \notin DOMAIN indices
    /\ Fetch([st EXCEPT !.read1 = twice])
    /\ Count(st, f)
    /\ flag' = f + 8
    /\ indices' = [indices EXCEPT ![SNP] = @ + 1]
    /\ files' = writeToBadFile(
                    writeToBadFile(files, rejectsR1, st.read1, f + 8),
                    rejectsR2, once, f + 8)
    /\ UNCHANGED <<R1, R2, I1, I2, out, pc>>

\* Reject with the barcode looked up for every group.
RejectWithLookup ==
    LET st == fetched
        f == flagOf(st.index1, st.index2)
        g == IF st.index1 \in DOMAIN indices THEN f ELSE f + 8 IN
    /\ pc = "loop"
    /\ ~ st.end
    /\ ~ raisesQS(st.index1, st.index2)
    /\ f # 0
    /\ Fetch([st EXCEPT !.read1 = tagRead(st.read1, g),
                        !.read2 = tagRead(st.read2, g)])
    /\ Count(st, f)
    /\ flag' = g
    /\ indices' = IF g = f THEN indices ELSE [indices EXCEPT ![SNP] = @ + 1]
    /\ files' = writeToBadFile(
                    writeToBadFile(files, rejectsR1, st.read1, g),
                    rejectsR2, st.read2, g)
    /\ UNCHANGED <<R1, R2, I1, I2, out, pc>>

\* flag != 0: the two reads go to the reject files.
Reject ==
    LET st == fetched
        f == flagOf(st.index1, st.index2) IN
    /\ pc = "loop"
    /\ ~ st.end
    /\ ~ raisesQS(st.index1, st.index2)
    /\ f # 0
    /\ Fetch([st EXCEPT !.read1 = tagRead(st.read1, f),
                        !.read2 = tagRead(st.read2, f)])
    /\ Count(st, f)
    /\ flag' = f
    /\ files' = writeToBadFile(
                    writeToBadFile(files, rejectsR1, st.read1, f),
                    rejectsR2, st.read2, f)
    /\ UNCHANGED <<R1, R2, I1, I2, indices, out, pc>>

\* The summary is written and the files are closed.
WriteSummary ==
    /\ pc = "done"
    /\ out' = <<reads, N, IH, QS, indices>>
    /\ pc' = "closed"
    /\ UNCHANGED <<R1, R2, I1, I2, posR1, posR2, posI1, posI2, read1, read2,
                   indexR1, indexR2, index1, index2, flag, reads, N, IH, QS,
                   indices, files, matched>>

Next ==
    \/ EndOfInput
    \/ Crash
    \/ Accept
    \/ RejectUnknown
    \/ Reject
    \/ WriteSummary

Spec == Init /\ [][Next]_vars

----------------------------------------------------------------------------
\* The matcher on its own: matching applied to every pair of sequences over
\* {A, C, G, T, N} of at most MaxLen bases.

Bases == {"A", "C", "G", "T", "N"}

Sequences == UNION { [1..n -> Bases] : n \in 0..MaxLen }

MatchInit ==
    /\ index1 \in Sequences
    /\ index2 \in Sequences
    /\ R1 = <<>> /\ R2 = <<>> /\ I1 = <<>> /\ I2 = <<>>
    /\ posR1 = 1 /\ posR2 = 1 /\ posI1 = 1 /\ posI2 = 1
    /\ read1 = <<None, None, None, None>>
    /\ read2 = <<None, None, None, None>>
    /\ indexR1 = <<None, None, None, None>>
    /\ indexR2 = <<None, None, None, None>>
    /\ flag = 0
    /\ reads = 0 /\ N = 0 /\ IH = 0 /\ QS = 0
    /\ indices = indicesInit
    /\ files = <<>>
    /\ out = None
    /\ matched = FALSE
    /\ pc = "match"

\* if not(matching(index1, index2)): flag = flag + 2
CallMatching ==
    /\ pc = "match"
    /\ matched' = matching(index1, index2)
    /\ flag' = IF matched' THEN 0 ELSE 2
    /\ pc' = "matched"
    /\ UNCHANGED <<R1, R2, I1, I2, posR1, posR2, posI1, posI2, read1, read2,
                   indexR1, indexR2, index1, index2, reads, N, IH, QS,
                   indices, files, out>>

MatchNext == CallMatching

MatchSpec == MatchInit /\ [][MatchNext]_vars

----------------------------------------------------------------------------
\* Vocabulary of the properties

\* A group was read, classified and routed, and the loop is at its head.
Processed == pc = "loop" /\ reads > 0

\* The group processed last had a record in each of the four files.
Complete ==
    /\ Processed
    /\ \A file \in {R1, R2, I1, I2} : Len(file) >= 4 * reads

\* The loop is at an iteration boundary or was left by the end flag.
AtBoundary == pc \in {"loop", "done", "closed"}

\* Line x (1..4) of record k of a file, as readInLine returns it.
GroupLine(file, k, x) == readInLine(file, 4 * (k - 1) + x)

\* The record of the group as the loop holds it: the lines read, the
\* separator line followed by a blank and the index sequence.
Held(file, k, index) ==
    <<GroupLine(file, k, 1), GroupLine(file, k, 2),
      GroupLine(file, k, 3) \o <<" ">> \o index, GroupLine(file, k, 4)>>

\* The record of the group exactly as it was read.
AsRead(file, k) ==
    <<GroupLine(file, k, 1), GroupLine(file, k, 2),
      GroupLine(file, k, 3), GroupLine(file, k, 4)>>

\* The lines of an output file (none when the file does not exist).
Content(name) == IF name \in DOMAIN files THEN files[name] ELSE <<>>

\* The last record of an output file.
LastRecord(name) ==
    SubSeq(Content(name), Len(Content(name)) - 3, Len(Content(name)))

\* The reason set of a flag and the text of its tags in the fixed order.
Reasons(f) == { r \in {"N", "IH", "QS", "E"} :
                  \/ r = "N" /\ f % 2 = 1
                  \/ r = "IH" /\ (f \div 2) % 2 = 1
                  \/ r = "QS" /\ (f \div 4) % 2 = 1
                  \/ r = "E" /\ (f \div 8) % 2 = 1 }

TagText(f) ==
    (IF "N" \in Reasons(f) THEN <<" ", "(", "N", ")">> ELSE <<>>)
      \o (IF "IH" \in Reasons(f) THEN <<" ", "(", "I", "H", ")">> ELSE <<>>)
      \o (IF "QS" \in Reasons(f) THEN <<" ", "(", "Q", "S", ")">> ELSE <<>>)
      \o (IF "E" \in Reasons(f) THEN <<" ", "(", "E", ")">> ELSE <<>>)

\* The sum of the Phred scores of a quality line.
RECURSIVE PhredSum(_)
PhredSum(q) == IF q = <<>> THEN 0 ELSE ord(Head(q)) - 33 + PhredSum(Tail(q))

\* The mean Phred score of a quality line is below the cutoff 32.
MeanBelowCutoff(q) == PhredSum(q) < 32 * Len(q)

\* The sum of the counts of the known barcodes.
RECURSIVE SumCounts(_)
SumCounts(bs) ==
    IF bs = {} THEN 0
    ELSE LET b == CHOOSE c \in bs : TRUE
         IN  indices[b] + SumCounts(bs \ {b})

\* The number of records of an output file.
Records(name) == Len(Content(name)) \div 4

\* line contains the text t.
Contains(line, t) ==
    \E i \in 1..(Len(line) - Len(t) + 1) : SubSeq(line, i, i + Len(t) - 1) = t

\* The number of records of an output file whose separator line has tag t.
Tagged(name, t) ==
    Cardinality({ k \in 1..Records(name) :
                    Contains(Content(name)[4 * (k - 1) + 3], t) })

----------------------------------------------------------------------------
\* C1: a processed group has the LowQuality bit (4) if and only if the mean
\* Phred score of the quality line of its index-1 record or of its index-2
\* record is below the cutoff 32.
C1_LowQualityIffMeanBelowCutoff ==
    Complete =>
        ((flag \div 4) % 2 = 1
            <=> (MeanBelowCutoff(indexR1[4]) \/ MeanBelowCutoff(indexR2[4])))

\* C2: for a rejected group the last record of rejects_R1 is the read-1
\* record of the group and the last record of rejects_R2 is its read-2
\* record, each with the tags of the reason set appended once to its own
\* separator line, in the order (N), (IH), (QS), (E).
C2_RejectsHoldBothReadsTaggedOnce ==
    (Complete /\ flag # 0) =>
        /\ LastRecord(rejectsR1)
             = [Held(R1, reads, index1) EXCEPT ![3] = @ \o TagText(flag)]
        /\ LastRecord(rejectsR2)
             = [Held(R2, reads, index2) EXCEPT ![3] = @ \o TagText(flag)]

\* C3 as stated: for an accepted group the last record of <barcode>_R1 and
\* of <barcode>_R2 is exactly the four lines read from read 1 and read 2.
C3_AcceptedWrittenVerbatim ==
    (Complete /\ flag = 0) =>
        /\ LastRecord(goodR1(index1)) = AsRead(R1, reads)
        /\ LastRecord(goodR2(index1)) = AsRead(R2, reads)

\* C3 as amended: for an accepted group the header, sequence and quality
\* lines written to <barcode>_R1 and <barcode>_R2 are the lines read from
\* read 1 and read 2, and the separator line written is the separator line
\* read followed by a blank and the index-1 (for R1) or index-2 (for R2)
\* sequence of the group; no reason tag is added.
C3_AcceptedWrittenWithIndex ==
    (Processed /\ flag = 0) =>
        /\ index1 \in Barcodes
        /\ LastRecord(goodR1(index1)) = Held(R1, reads, GroupLine(I1, reads, 2))
        /\ LastRecord(goodR2(index1)) = Held(R2, reads, GroupLine(I2, reads, 2))

C3_Witness ==
    /\ Processed /\ flag = 0
    /\ reads = 2
    /\ Records(goodR1(index1)) = 2

----------------------------------------------------------------------------
\* The matcher of the claim: the reverse complement of index 2, and the
\* comparison without the first base, without the last base, or whole.

Pairing(x) ==
    IF x = "A" THEN "T" ELSE IF x = "T" THEN "A"
    ELSE IF x = "C" THEN "G" ELSE IF x = "G" THEN "C" ELSE "N"

ReverseComplement(s) == [i \in 1..Len(s) |-> Pairing(s[Len(s) + 1 - i])]

HasN(s) == "N" \in { s[i] : i \in 1..Len(s) }

WithoutFirst(s) == IF s = <<>> THEN <<>> ELSE Tail(s)

WithoutLast(s) == IF s = <<>> THEN <<>> ELSE SubSeq(s, 1, Len(s) - 1)

\* Equality of two sequences, base by base.
SameBases(a, b) == Len(a) = Len(b) /\ \A i \in 1..Len(a) : a[i] = b[i]

Reference(a, b) ==
    LET rc == ReverseComplement(b)
    IN  IF HasN(a) THEN SameBases(WithoutFirst(a), WithoutFirst(rc))
        ELSE IF HasN(b) THEN SameBases(WithoutLast(a), WithoutLast(rc))
        ELSE SameBases(a, rc)

\* C4: matching(index1, index2) is the reference of the claim; when both
\* sequences contain an N the result is the one of the comparison without
\* the first base; a sequence without N matches its reverse complement.
C4_MatchingIsReference ==
    pc = "matched" =>
        /\ matched = Reference(index1, index2)
        /\ (HasN(index1) /\ HasN(index2)) =>
              (matched = SameBases(WithoutFirst(index1),
                                   WithoutFirst(ReverseComplement(index2))))
        /\ (~ HasN(index1) /\ SameBases(index2, ReverseComplement(index1)))
              => matched

\* Both sequences contain an N, and they match without their first base but
\* not without their first and last base.
C4_Witness ==
    /\ pc = "matched"
    /\ HasN(index1) /\ HasN(index2)
    /\ Len(index1) = 3
    /\ ~ matched
    /\ SameBases(WithoutLast(WithoutFirst(index1)),
                 WithoutLast(WithoutFirst(ReverseComplement(index2))))

----------------------------------------------------------------------------
\* C5: at every iteration boundary and after the loop the total of reads is
\* the sum of the counts of the known barcodes plus the number of groups in
\* the reject files, and the count of a known barcode is the number of
\* groups in its pair of files: a group is in exactly one of the two parts.
C5_TotalIsAcceptedPlusRejected ==
    AtBoundary =>
        /\ reads = SumCounts(Barcodes) + Records(rejectsR1)
        /\ reads = SumCounts(Barcodes) + Records(rejectsR2)
        /\ \A b \in Barcodes :
              /\ indices[b] = Records(goodR1(b))
              /\ indices[b] = Records(goodR2(b))
        /\ indices[SNP] <= Records(rejectsR1)

C5_Witness ==
    /\ pc = "closed"
    /\ reads = 2
    /\ SumCounts(Barcodes) = 1
    /\ Records(rejectsR1) = 1

\* The bit of a reason in a flag, as a number.
Bit(f, b) == (f \div b) % 2

\* One step counts one group: the total by 1, the counter of a reason by 1
\* if the reason is in the flag of the group and by 0 otherwise, the count
\* of a known barcode only when the group is accepted with that barcode.
CountsOneGroup ==
    IF reads' = reads
    THEN UNCHANGED <<N, IH, QS, indices>>
    ELSE /\ reads' = reads + 1
         /\ N' = N + Bit(flag', 1)
         /\ IH' = IH + Bit(flag', 2)
         /\ QS' = QS + Bit(flag', 4)
         /\ indices'[SNP] = indices[SNP] + Bit(flag', 8)
         /\ \A b \in Barcodes :
               IF flag' = 0 /\ pc' = "loop" /\ b = index1'
               THEN indices'[b] = indices[b] + 1
               ELSE indices'[b] = indices[b]

\* The counters are the numbers of groups written with the tag of the reason.
CountersAreTagCounts ==
    AtBoundary =>
        /\ N = Tagged(rejectsR1, <<"(", "N", ")">>)
        /\ IH = Tagged(rejectsR1, <<"(", "I", "H", ")">>)
        /\ QS = Tagged(rejectsR1, <<"(", "Q", "S", ")">>)
        /\ indices[SNP] = Tagged(rejectsR1, <<"(", "E", ")">>)
        /\ N = Tagged(rejectsR2, <<"(", "N", ")">>)
        /\ IH = Tagged(rejectsR2, <<"(", "I", "H", ")">>)
        /\ QS = Tagged(rejectsR2, <<"(", "Q", "S", ")">>)
        /\ indices[SNP] = Tagged(rejectsR2, <<"(", "E", ")">>)

\* C6: processing one group increments the total by exactly 1 and the
\* counter of each reason by 1 if the reason is in the reason set of the
\* group and by 0 otherwise; each failure counter is the number of groups
\* whose written tag list contains the reason; the count of a known barcode
\* changes only when a group with that barcode is accepted.
C6_CountersFollowReasons == [] CountersAreTagCounts /\ [][CountsOneGroup]_vars

C6_Witness ==
    /\ pc = "loop"
    /\ reads = 2
    /\ N = 1 /\ IH = 1 /\ QS = 1 /\ indices[SNP] = 1

\* C7 as stated: the presence of a reason does not depend on the presence of
\* another one, so that all 16 reason sets occur; for UnknownBarcode: a group
\* has bit 8 if and only if its index-1 sequence is not a known barcode,
\* whichever other reasons it has.
C7_ReasonsIndependent ==
    Complete => ((flag \div 8) % 2 = 1 <=> index1 \notin Barcodes)

\* C7 as amended: a reason set is a subset of {ContainsN, IndexMismatch,
\* LowQuality} or is {UnknownBarcode} alone: the flag is one of 0..8, flag 8
\* is given only to a group whose index-1 sequence is unknown, and a group
\* with an unknown index-1 sequence is never accepted.
C7_UnknownBarcodeOnlyAlone ==
    /\ flag \in 0..8
    /\ Processed => /\ flag = 8 => index1 \notin Barcodes
                    /\ flag = 0 => index1 \in Barcodes

\* A group rejected for ContainsN and others, then one for UnknownBarcode.
C7_Witness ==
    /\ Processed
    /\ flag = 8
    /\ Tagged(rejectsR1, <<"(", "N", ")">>) = 1

----------------------------------------------------------------------------
\* Output files before and after a step

ContentAfter(name) == IF name \in DOMAIN files' THEN files'[name] ELSE <<>>

\* The lines a step adds at the end of a file.
Added(name) ==
    SubSeq(ContentAfter(name), Len(Content(name)) + 1, Len(ContentAfter(name)))

IsPrefix(a, b) == Len(a) <= Len(b) /\ SubSeq(b, 1, Len(a)) = a

\* The other file of the bucket of a file.
Partner(name) ==
    LET last == name[Len(name)]
        other == IF last = "_R1.fastq" THEN "_R2.fastq"
                 ELSE IF last = "_R2.fastq" THEN "_R1.fastq"
                 ELSE IF last = "rejects_R1.fastq" THEN "rejects_R2.fastq"
                 ELSE "rejects_R1.fastq"
    IN  SubSeq(name, 1, Len(name) - 1) \o <<other>>

\* A step keeps every file and its lines, adds to a file nothing or the one
\* record (four lines) of the group read in this step, and adds to the two
\* files of a bucket together.
AppendsInOrder ==
    \A name \in DOMAIN files \cup DOMAIN files' :
        /\ name \in DOMAIN files'
        /\ IsPrefix(Content(name), ContentAfter(name))
        /\ Len(Added(name)) \in {0, 4}
        /\ Len(Added(name)) = 4 =>
              /\ reads' = reads + 1
              /\ Added(name)[1]
                   \in {readInLine(R1, posR1), readInLine(R2, posR2)}
        /\ Len(ContentAfter(Partner(name))) = Len(ContentAfter(name))

\* C8: writes only append, a record written is never removed or overwritten,
\* the records of a bucket are in the order in which their groups were read,
\* and the R1 and the R2 file of a bucket hold the same number of records,
\* pairwise of the same groups.
C8_BucketsAppendInReadOrder == [][AppendsInOrder]_vars

\* Two groups in the reject files, the second after the first.
C8_Witness ==
    /\ Records(rejectsR1) = 2
    /\ Records(rejectsR2) = 2
    /\ LastRecord(rejectsR1) # SubSeq(Content(rejectsR1), 1, 4)

----------------------------------------------------------------------------
\* End of input

\* The file has no line left.
Exhausted(file, pos) == pos > Len(file)

\* One of the four lines that the loop would read of read 1 is empty.
EmptyLineInRead1 == \E x \in 0..3 : readInLine(R1, posR1 + x) = <<>>

\* The loop is left without counting or writing anything.
StopsSilently ==
    /\ pc' = "done"
    /\ UNCHANGED <<reads, N, IH, QS, indices, files>>

\* C9 as stated: at the first group for which one of the four files is
\* exhausted the run stops silently: the group is neither counted nor
\* written and no error is raised.
C9_StopsWhenAnyStreamExhausted ==
    [][(/\ pc = "loop"
        /\ \/ Exhausted(R1, posR1) \/ Exhausted(R2, posR2)
           \/ Exhausted(I1, posI1) \/ Exhausted(I2, posI2))
          => StopsSilently]_vars

StopsOnlyOnRead1 ==
    pc = "loop" =>
        /\ Exhausted(R1, posR1) => StopsSilently
        /\ pc' = "done" => (EmptyLineInRead1 /\ StopsSilently)
        /\ (/\ ~ EmptyLineInRead1
            /\ \/ Exhausted(R2, posR2) \/ Exhausted(I1, posI1)
               \/ Exhausted(I2, posI2))
              => (pc' \in {"loop", "crashed"} /\ reads' = reads + 1)

\* C9 as amended: the run stops silently at the first group for which read 1
\* is exhausted (a line of read 1 is empty), whatever the other files hold:
\* that group is neither counted nor written, no error is raised and the
\* summary holds the counters of the groups before it.  When only read 2,
\* index 1 or index 2 is exhausted the run does not stop silently: the group
\* is counted, and is routed with empty lines or ends the run with an error.
C9_StopsWhenRead1Exhausted ==
    /\ [][StopsOnlyOnRead1]_vars
    /\ [](pc = "closed" => out = <<reads, N, IH, QS, indices>>)

\* Read 1 is the shortest file, and the run ended after its last group.
C9_Witness ==
    /\ pc = "closed"
    /\ Len(R1) = 4
    /\ Len(R2) = 8 /\ Len(I1) = 8 /\ Len(I2) = 8
    /\ reads = 1
    /\ out[1] = 1

\* C10: when the four files hold the same number n of records, the loop ends
\* only at the end of the files, after all n groups were processed: the total
\* of reads is n.
C10_EveryGroupProcessed ==
    (/\ pc \in {"done", "closed"}
     /\ Len(R1) = Len(R2) /\ Len(R1) = Len(I1) /\ Len(R1) = Len(I2))
        => reads = Len(R1) \div 4

====
